---- MODULE Spec2Model ----
(***************************************************************************)
(* Model of analysis_script.py: a linear pipeline that loads a CSV,        *)
(* prints grouped descriptive statistics, writes three images and runs a   *)
(* Welch t-test whose p-value selects one of two verdict lines.            *)
(*                                                                         *)
(* Numbers.  Outcomes are small naturals, so every mean, variance,         *)
(* quartile, squared statistic and Welch degree of freedom is an exact     *)
(* rational, kept as a reduced pair <<num, den>>.  The one quantity that   *)
(* is not rational is the Student-t tail probability of a finite non-zero  *)
(* statistic: for it the test step draws the p-value from PAmostras, a set *)
(* of rationals strictly between 0 and 1 lying below, on and above the     *)
(* threshold.  The exactly determined cases (NaN, p = 0 of an infinite     *)
(* statistic, p = 1 of a zero statistic) are computed.  The draw admits    *)
(* more behaviours than the library has, so every invariant established    *)
(* here holds of the program as well.                                      *)
(*                                                                         *)
(* Datasets are complete: every row carries a numeric indicator and a      *)
(* numeric outcome (no empty cells).                                       *)
(***************************************************************************)
EXTENDS Integers, Sequences, FiniteSets

VARIABLES
  arquivo,    \* the CSV at "dataset_sintetico.csv" as the current run finds it
  fs,         \* image files in the working directory: path, and the run that
              \* wrote the content now there
  execucao,   \* number of the current run of main(), 0 before the first
  pc,         \* step main() is about to execute; "fim" after it returned,
              \* "falha" after it raised, "parado" when no process runs
  passos,     \* steps of the current run that have completed, in order
  df,         \* the DataFrame held by main(), if loaded
  stats_desc, \* the table returned by estatisticas_descritivas, if computed
  figura,     \* what graficos_base_escolas drew, if it ran: partition, scatter
  particao,   \* the partition computed inside teste_de_hipotese, if it ran
  resultado,  \* (t_stat, p_val) held by main(), if the test returned
  saida,      \* lines printed to standard output by the current run
  escritas    \* image writes of the current run: <<path, writer>> in order

vars == <<arquivo, fs, execucao, pc, passos, df, stats_desc, figura,
          particao, resultado, saida, escritas>>

(***************************************************************************)
(* Bounds                                                                  *)
(***************************************************************************)
MaxLinhas == 4
MaxExecucoes == 2

Indicadores == {0, 1, 2}
Taxas == {0, 1}

\* Optional values: <<>> when absent, <<v>> when present
Nenhum == <<>>

Algum(v) == <<v>>

COL_IND == "TEM_ESTRUTURA_TEC"
COL_TAXA == "taxa_aprovacao"
Colunas == {COL_IND, COL_TAXA}

ARQ_DISCRETAS == "distribuicoes_discretas.png"
ARQ_CONTINUAS == "distribuicoes_continuas.png"
ARQ_ESCOLAS == "graficos_base_escolas.png"
Imagens == {ARQ_DISCRETAS, ARQ_CONTINUAS, ARQ_ESCOLAS}

(***************************************************************************)
(* Rationals                                                               *)
(***************************************************************************)
RECURSIVE Mdc(_, _)
Mdc(a, b) == IF b = 0 THEN a ELSE Mdc(b, a % b)

Abs(x) == IF x < 0 THEN -x ELSE x

Sinal(x) == IF x < 0 THEN -1 ELSE IF x > 0 THEN 1 ELSE 0

\* n/d with d > 0, reduced
Frac(n, d) == LET g == Mdc(Abs(n), d) IN <<n \div g, d \div g>>

\* The non-finite floats, as fractions no Frac(n, d) produces
NaN == <<0, 0>>

Infinito == <<1, 0>>

EhNaN(x) == x = NaN

EhFinito(x) == x[2] > 0

\* IEEE comparisons of finite-or-NaN values: false when either side is NaN
Menor(p, q) == EhFinito(p) /\ EhFinito(q) /\ p[1] * q[2] < q[1] * p[2]

MenorIgual(p, q) == EhFinito(p) /\ EhFinito(q) /\ p[1] * q[2] <= q[1] * p[2]

\* arithmetic on finite fractions
FracSoma(p, q) == Frac(p[1] * q[2] + q[1] * p[2], p[2] * q[2])

FracSub(p, q) == Frac(p[1] * q[2] - q[1] * p[2], p[2] * q[2])

FracProd(p, q) == Frac(p[1] * q[1], p[2] * q[2])

\* p / q for q > 0
FracDiv(p, q) == Frac(p[1] * q[2], p[2] * q[1])

(***************************************************************************)
(* Sequences of outcomes                                                   *)
(***************************************************************************)
RECURSIVE Soma(_)
Soma(s) == IF s = <<>> THEN 0 ELSE Head(s) + Soma(Tail(s))

RECURSIVE SomaQuadrados(_)
SomaQuadrados(s) ==
  IF s = <<>> THEN 0 ELSE Head(s) * Head(s) + SomaQuadrados(Tail(s))

Minimo(s) == CHOOSE x \in {s[i] : i \in DOMAIN s} :
               \A j \in DOMAIN s : x <= s[j]

Maximo(s) == CHOOSE x \in {s[i] : i \in DOMAIN s} :
               \A j \in DOMAIN s : x >= s[j]

\* k-th smallest element of s, k counted from 0
Ordenado(s, k) ==
  CHOOSE x \in {s[i] : i \in DOMAIN s} :
    /\ Cardinality({i \in DOMAIN s : s[i] < x}) <= k
    /\ Cardinality({i \in DOMAIN s : s[i] <= x}) > k

(***************************************************************************)
(* The CSV and the loader                                                  *)
(***************************************************************************)
Linhas == [ind : Indicadores, taxa : Taxas]

Tabelas == UNION {[1..n -> Linhas] : n \in 0..MaxLinhas}

\* What may sit at the input path: nothing, unparsable text, a table lacking
\* one or both columns, or a complete table.
Arquivos ==
  {[estado |-> e, colunas |-> {}, linhas |-> <<>>] :
      e \in {"ausente", "malformado"}}
  \cup {[estado |-> "ok", colunas |-> c, linhas |-> <<>>] :
      c \in (SUBSET Colunas) \ {Colunas}}
  \cup {[estado |-> "ok", colunas |-> Colunas, linhas |-> l] : l \in Tabelas}

SemArquivo == [estado |-> "ausente", colunas |-> {}, linhas |-> <<>>]

Erro(nome) == [erro |-> TRUE, nome |-> nome]

Valor(v) == [erro |-> FALSE, valor |-> v]

\* pd.read_csv(path)
carregar_dados(a) ==
  CASE a.estado = "ausente" -> Erro("FileNotFoundError")
    [] a.estado = "malformado" -> Erro("ParserError")
    [] OTHER -> Valor([colunas |-> a.colunas, linhas |-> a.linhas])

(***************************************************************************)
(* Descriptive statistics: groupby(indicator)[outcome].describe()          *)
(***************************************************************************)
\* Outcomes of the rows of d whose indicator is v, in row order, each with
\* the row label it keeps: d.loc[d[COL_IND] == v, COL_TAXA]
Loc(d, v) ==
  LET F[i \in 0..Len(d.linhas)] ==
        IF i = 0 THEN <<>>
        ELSE IF d.linhas[i].ind = v
             THEN Append(F[i - 1], [rotulo |-> i, taxa |-> d.linhas[i].taxa])
             ELSE F[i - 1]
  IN F[Len(d.linhas)]

ValoresDe(serie) == [i \in DOMAIN serie |-> serie[i].taxa]

\* Mutant of Quantil: interpolates between positions of the unsorted series
QuantilSemOrdenar(s, qn, qd) ==
  LET h == (Len(s) - 1) * qn
      lo == h \div qd
      r == h % qd
      hi == IF lo + 1 <= Len(s) - 1 THEN lo + 1 ELSE lo
  IN Frac(qd * s[lo + 1] + r * (s[hi + 1] - s[lo + 1]), qd)

\* Series.quantile(qn/qd), linear interpolation between order statistics
Quantil(s, qn, qd) ==
  LET h == (Len(s) - 1) * qn
      lo == h \div qd
      r == h % qd
      hi == IF lo + 1 <= Len(s) - 1 THEN lo + 1 ELSE lo
      xlo == Ordenado(s, lo)
      xhi == Ordenado(s, hi)
  IN Frac(qd * xlo + r * (xhi - xlo), qd)

\* sample variance (ddof = 1); NaN for a single observation
Variancia(s) ==
  LET n == Len(s)
  IN IF n < 2 THEN NaN
     ELSE Frac(n * SomaQuadrados(s) - Soma(s) * Soma(s), n * (n - 1))

\* one row of describe(); std is kept as its square
Descrever(s) ==
  [count |-> Len(s),
   mean |-> Frac(Soma(s), Len(s)),
   std2 |-> Variancia(s),
   min |-> Frac(Minimo(s), 1),
   q25 |-> Quantil(s, 1, 4),
   q50 |-> Quantil(s, 2, 4),
   q75 |-> Quantil(s, 3, 4),
   max |-> Frac(Maximo(s), 1)]

\* Mutant of Grupos: groups only the two expected indicator values
GruposBinarios(d) == {d.linhas[i].ind : i \in DOMAIN d.linhas} \cap {0, 1}

\* keys of the groupby: the distinct indicator values present
Grupos(d) == {d.linhas[i].ind : i \in DOMAIN d.linhas}

\* Mutant of estatisticas_descritivas: a missing column yields an empty table
estatisticas_descritivas_sem_erro(d) ==
  Valor([g \in Grupos(d) |-> Descrever(ValoresDe(Loc(d, g)))])

estatisticas_descritivas(d) ==
  IF ~(Colunas \subseteq d.colunas) THEN Erro("KeyError")
  ELSE Valor([g \in Grupos(d) |-> Descrever(ValoresDe(Loc(d, g)))])

(***************************************************************************)
(* Welch's t-test: stats.ttest_ind(a, b, equal_var=False)                  *)
(***************************************************************************)
\* A statistic is its sign and its square; the square is NaN, Infinito or a
\* finite fraction.
TNaN == [sinal |-> 0, quad |-> NaN]

\* degrees of freedom (Welch-Satterthwaite) from vn = var/n of each sample;
\* the library replaces the 0/0 of two zero variances by 1
GrausLiberdade(vn1, n1, vn2, n2) ==
  LET s == FracSoma(vn1, vn2)
      den == FracSoma(FracDiv(FracProd(vn1, vn1), <<n1 - 1, 1>>),
                      FracDiv(FracProd(vn2, vn2), <<n2 - 1, 1>>))
  IN IF den[1] = 0 THEN <<1, 1>> ELSE FracDiv(FracProd(s, s), den)

\* t = (mean(a) - mean(b)) / sqrt(var(a)/n1 + var(b)/n2), with the float
\* results of dividing by zero
EstatisticaT(a, b) ==
  LET n1 == Len(a)
      n2 == Len(b)
  IN IF n1 = 0 \/ n2 = 0 THEN TNaN
     ELSE IF EhNaN(Variancia(a)) \/ EhNaN(Variancia(b)) THEN TNaN
     ELSE
       LET d == FracSub(Frac(Soma(a), n1), Frac(Soma(b), n2))
           denom2 == FracSoma(FracDiv(Variancia(a), <<n1, 1>>),
                              FracDiv(Variancia(b), <<n2, 1>>))
       IN IF denom2[1] = 0
          THEN IF d[1] = 0 THEN TNaN
               ELSE [sinal |-> Sinal(d[1]), quad |-> Infinito]
          ELSE [sinal |-> Sinal(d[1]),
                quad |-> FracDiv(FracProd(d, d), denom2)]

\* degrees of freedom the p-value is taken at; NaN when the statistic is
GrausDoTeste(a, b) ==
  IF EhNaN(EstatisticaT(a, b).quad) THEN NaN
  ELSE GrausLiberdade(FracDiv(Variancia(a), <<Len(a), 1>>), Len(a),
                      FracDiv(Variancia(b), <<Len(b), 1>>), Len(b))

\* p-values a finite non-zero statistic may get: below, on and above 0.05
PAmostras == {<<1, 40>>, <<1, 20>>, <<1, 2>>}

\* two-sided p-value 2 * sf(|t|, gl): NaN of NaN, 0 of an infinite statistic,
\* 1 of a zero statistic, otherwise strictly between 0 and 1
PValores(t, gl) ==
  CASE EhNaN(t.quad) -> {NaN}
    [] t.quad = Infinito -> {<<0, 1>>}
    [] t.sinal = 0 -> {<<1, 1>>}
    [] OTHER -> PAmostras

ttest_ind(a, b) ==
  {[t |-> EstatisticaT(a, b), p |-> p] :
     p \in PValores(EstatisticaT(a, b), GrausDoTeste(a, b))}

\* Mutant of ParticaoDoTeste: "com" is every row whose indicator is not 0
ParticaoDoTesteNaoZero(d) ==
  LET F[i \in 0..Len(d.linhas)] ==
        IF i = 0 THEN <<>>
        ELSE IF d.linhas[i].ind /= 0
             THEN Append(F[i - 1], [rotulo |-> i, taxa |-> d.linhas[i].taxa])
             ELSE F[i - 1]
  IN [sem_tec |-> Loc(d, 0), com_tec |-> F[Len(d.linhas)]]

\* lines 129-130 of teste_de_hipotese
ParticaoDoTeste(d) == [sem_tec |-> Loc(d, 0), com_tec |-> Loc(d, 1)]

\* Mutant of teste_de_hipotese: the two groups passed in the other order
teste_de_hipotese_invertido(d) ==
  ttest_ind(ValoresDe(Loc(d, 0)), ValoresDe(Loc(d, 1)))

\* the possible returns of teste_de_hipotese(d)
teste_de_hipotese(d) ==
  ttest_ind(ValoresDe(ParticaoDoTeste(d).com_tec),
            ValoresDe(ParticaoDoTeste(d).sem_tec))

(***************************************************************************)
(* The visualizers                                                         *)
(***************************************************************************)
\* Mutant of savefig: writes a new file beside the one already there
savefig_sem_substituir(f, caminho, n) ==
  f \cup {[caminho |-> caminho, execucao |-> n]}

\* plt.savefig(caminho) during run n: creates the file, or replaces the one
\* already at that path
savefig(f, caminho, n) ==
  {a \in f : a.caminho /= caminho} \cup {[caminho |-> caminho, execucao |-> n]}

\* lines 94-95 of graficos_base_escolas
ParticaoDosGraficos(d) == [sem_tec |-> Loc(d, 0), com_tec |-> Loc(d, 1)]

\* the three panels of graficos_base_escolas: what each one is given
PaineisEscolas(d) ==
  LET pt == ParticaoDosGraficos(d)
  IN [sem_tec |-> pt.sem_tec,
      com_tec |-> pt.com_tec,
      histograma |-> <<ValoresDe(pt.com_tec), ValoresDe(pt.sem_tec)>>,
      boxplot |-> <<ValoresDe(pt.sem_tec), ValoresDe(pt.com_tec)>>,
      dispersao |-> [i \in DOMAIN d.linhas |->
                       <<d.linhas[i].ind, d.linhas[i].taxa>>]]

\* Samples the distribution visualizers may draw (np.random.*), reduced to
\* what the rendered histogram shows of them
Amostras == {0, 1}

(***************************************************************************)
(* main()                                                                  *)
(***************************************************************************)
\* the calls of main(), top to bottom
Ordem == <<"carregar", "descritivas", "discretas", "continuas", "escolas",
           "teste", "imprimir_teste", "veredito">>

\* Mutant of ProximoPasso: the two distribution images in the other order
ProximoPassoTrocado(p) ==
  LET outra == <<"carregar", "descritivas", "continuas", "discretas",
                 "escolas", "teste", "imprimir_teste", "veredito">>
      i == CHOOSE k \in DOMAIN outra : outra[k] = p
  IN IF i = Len(outra) THEN "fim" ELSE outra[i + 1]

\* the statement that follows step p; "fim" when main() returns
ProximoPasso(p) ==
  LET i == CHOOSE k \in DOMAIN Ordem : Ordem[k] = p
  IN IF i = Len(Ordem) THEN "fim" ELSE Ordem[i + 1]

\* significance level of the verdict
Alfa == <<1, 20>>

\* Mutant of Significativo: p_val <= 0.05
SignificativoInclusivo(p) == MenorIgual(p, Alfa)

\* the condition of the if statement: p_val < 0.05
Significativo(p) == Menor(p, Alfa)

\* the line the if statement prints
Veredito(p) ==
  IF Significativo(p) THEN "significativa" ELSE "nao_significativa"

Avancar(p) ==
  /\ pc' = ProximoPasso(p)
  /\ passos' = Append(passos, p)

\* an exception leaves main(): nothing else runs
Falhar == pc' = "falha" /\ passos' = passos

Init ==
  /\ arquivo = SemArquivo
  /\ fs = {}
  /\ execucao = 0
  /\ pc = "parado"
  /\ passos = <<>>
  /\ df = Nenhum
  /\ stats_desc = Nenhum
  /\ figura = Nenhum
  /\ particao = Nenhum
  /\ resultado = Nenhum
  /\ saida = <<>>
  /\ escritas = <<>>

\* the script is invoked: a fresh process, whatever CSV is on disk
Iniciar ==
  /\ pc = "parado"
  /\ execucao < MaxExecucoes
  /\ arquivo' \in Arquivos
  /\ execucao' = execucao + 1
  /\ pc' = Ordem[1]
  /\ UNCHANGED <<fs, passos, df, stats_desc, figura, particao, resultado,
                 saida, escritas>>

\* the process exits (main() returned or raised): its memory is released,
\* the images it wrote stay; the CSV is anyone's to replace before the next
\* run, so what this run read is forgotten
Encerrar ==
  /\ pc \in {"fim", "falha"}
  /\ pc' = "parado"
  /\ passos' = <<>>
  /\ df' = Nenhum
  /\ stats_desc' = Nenhum
  /\ figura' = Nenhum
  /\ particao' = Nenhum
  /\ resultado' = Nenhum
  /\ saida' = <<>>
  /\ escritas' = <<>>
  /\ arquivo' = SemArquivo
  /\ UNCHANGED <<fs, execucao>>

\* df = carregar_dados("dataset_sintetico.csv")
Carregar ==
  /\ pc = "carregar"
  /\ IF carregar_dados(arquivo).erro
     THEN Falhar /\ UNCHANGED df
     ELSE Avancar("carregar") /\ df' = Algum(carregar_dados(arquivo).valor)
  /\ UNCHANGED <<arquivo, fs, execucao, stats_desc, figura, particao,
                 resultado, saida, escritas>>

\* stats_desc = estatisticas_descritivas(df); print(...)
Descritivas ==
  /\ pc = "descritivas"
  /\ IF estatisticas_descritivas(df[1]).erro
     THEN Falhar /\ UNCHANGED <<stats_desc, saida>>
     ELSE /\ Avancar("descritivas")
          /\ stats_desc' = Algum(estatisticas_descritivas(df[1]).valor)
          /\ saida' = Append(saida, "estatisticas")
  /\ UNCHANGED <<arquivo, fs, execucao, df, figura, particao, resultado,
                 escritas>>

\* graficos_distribuicoes_discretas()
Discretas ==
  /\ pc = "discretas"
  /\ \E am \in Amostras :
       escritas' = Append(escritas, [caminho |-> ARQ_DISCRETAS,
                                     autor |-> "discretas", amostra |-> am])
  /\ fs' = savefig(fs, ARQ_DISCRETAS, execucao)
  /\ Avancar("discretas")
  /\ UNCHANGED <<arquivo, execucao, df, stats_desc, figura, particao,
                 resultado, saida>>

\* graficos_distribuicoes_continuas()
Continuas ==
  /\ pc = "continuas"
  /\ \E am \in Amostras :
       escritas' = Append(escritas, [caminho |-> ARQ_CONTINUAS,
                                     autor |-> "continuas", amostra |-> am])
  /\ fs' = savefig(fs, ARQ_CONTINUAS, execucao)
  /\ Avancar("continuas")
  /\ UNCHANGED <<arquivo, execucao, df, stats_desc, figura, particao,
                 resultado, saida>>

\* graficos_base_escolas(df)
Escolas ==
  /\ pc = "escolas"
  /\ figura' = Algum(PaineisEscolas(df[1]))
  /\ escritas' = Append(escritas, [caminho |-> ARQ_ESCOLAS,
                                   autor |-> "escolas", amostra |-> 0])
  /\ fs' = savefig(fs, ARQ_ESCOLAS, execucao)
  /\ Avancar("escolas")
  /\ UNCHANGED <<arquivo, execucao, df, stats_desc, particao, resultado,
                 saida>>

\* t_stat, p_val = teste_de_hipotese(df)
Teste ==
  /\ pc = "teste"
  /\ particao' = Algum(ParticaoDoTeste(df[1]))
  /\ \E r \in teste_de_hipotese(df[1]) : resultado' = Algum(r)
  /\ Avancar("teste")
  /\ UNCHANGED <<arquivo, fs, execucao, df, stats_desc, figura, saida,
                 escritas>>

\* print(f"...t = {t_stat:.4f}\np-valor = {p_val:.6f}")
ImprimirTeste ==
  /\ pc = "imprimir_teste"
  /\ saida' = Append(saida, "teste")
  /\ Avancar("imprimir_teste")
  /\ UNCHANGED <<arquivo, fs, execucao, df, stats_desc, figura, particao,
                 resultado, escritas>>

\* if p_val < 0.05: print(...) else: print(...)
ImprimirVeredito ==
  /\ pc = "veredito"
  /\ saida' = Append(saida, Veredito(resultado[1].p))
  /\ Avancar("veredito")
  /\ UNCHANGED <<arquivo, fs, execucao, df, stats_desc, figura, particao,
                 resultado, escritas>>

Next ==
  \/ Iniciar
  \/ Carregar
  \/ Descritivas
  \/ Discretas
  \/ Continuas
  \/ Escolas
  \/ Teste
  \/ ImprimirTeste
  \/ ImprimirVeredito
  \/ Encerrar

Spec == Init /\ [][Next]_vars

(***************************************************************************)
(* Properties                                                              *)
(***************************************************************************)
Feitos == Len(passos)

Imagem(seq) == {seq[i] : i \in DOMAIN seq}

Vereditos == {"significativa", "nao_significativa"}

LinhasDeVeredito == {i \in DOMAIN saida : saida[i] \in Vereditos}

\* rows of table d whose indicator is v
LinhasCom(d, v) == {i \in DOMAIN d.linhas : d.linhas[i].ind = v}

\* images written by the current run
EscritasDaExecucao == {a \in fs : a.caminho \in Imagens /\ a.execucao = execucao}

\* C1: the steps of main() run in the fixed order load, descriptive
\* statistics, discrete image, continuous image, comparative image, test,
\* print of the result, print of the verdict; each at most once, and the
\* effect of a step is present exactly when the step has completed.
C1_OrdemDosPassos ==
  /\ Feitos <= Len(Ordem)
  /\ passos = SubSeq(Ordem, 1, Feitos)
  /\ pc \in Imagem(Ordem) => pc = Ordem[Feitos + 1]
  /\ pc = "fim" => passos = Ordem
  /\ (df /= Nenhum) <=> (Feitos >= 1)
  /\ (stats_desc /= Nenhum) <=> (Feitos >= 2)
  /\ [i \in DOMAIN escritas |-> escritas[i].caminho]
       = SubSeq(<<ARQ_DISCRETAS, ARQ_CONTINUAS, ARQ_ESCOLAS>>, 1,
                IF Feitos <= 2 THEN 0 ELSE IF Feitos >= 5 THEN 3 ELSE Feitos - 2)
  /\ (figura /= Nenhum) <=> (Feitos >= 5)
  /\ (resultado /= Nenhum) <=> (Feitos >= 6)
  /\ Len(saida) = (IF Feitos >= 2 THEN 1 ELSE 0) + (IF Feitos >= 7 THEN 1 ELSE 0)
                  + (IF Feitos >= 8 THEN 1 ELSE 0)
  /\ Len(saida) >= 1 => saida[1] = "estatisticas"
  /\ Len(saida) >= 2 => saida[2] = "teste"
  /\ Len(saida) >= 3 => saida[3] \in Vereditos

C1_Witness ==
  /\ pc = "fim"
  /\ passos = Ordem
  /\ Len(saida) = 3
  /\ Len(escritas) = 3

\* C2 (as claimed): when every row has indicator 0 the test signals a
\* failure instead of returning NaN, so main() fails and prints no verdict.
C2_FalhaComGrupoVazio ==
  (/\ pc \notin {"parado", "carregar"}
   /\ arquivo.estado = "ok"
   /\ arquivo.colunas = Colunas
   /\ Len(arquivo.linhas) > 0
   /\ \A i \in DOMAIN arquivo.linhas : arquivo.linhas[i].ind = 0)
  => /\ resultado = Nenhum
     /\ pc /= "fim"
     /\ LinhasDeVeredito = {}

\* C3: a run that reaches the end printed exactly one verdict line, the
\* "significant" one exactly when the p-value is a number below 1/20, and
\* the "not significant" one for every other p-value (1/20 itself, NaN).
C3_VereditoPeloPValor ==
  /\ Cardinality(LinhasDeVeredito) <= 1
  /\ pc = "fim" =>
       /\ Cardinality(LinhasDeVeredito) = 1
       /\ LET p == resultado[1].p
              abaixo == p[2] > 0 /\ 20 * p[1] < p[2]
          IN /\ abaixo => saida[Len(saida)] = "significativa"
             /\ ~abaixo => saida[Len(saida)] = "nao_significativa"

C3_Witness ==
  /\ pc = "fim"
  /\ resultado[1].p = <<1, 20>>
  /\ saida[Len(saida)] = "nao_significativa"

\* C4 (as claimed): with at least 2 rows in each group and one constant
\* outcome everywhere, the test returns statistic 0 and p-value 1.
C4_ConstanteDaZeroEUm ==
  (/\ resultado /= Nenhum
   /\ Cardinality(LinhasCom(df[1], 0)) >= 2
   /\ Cardinality(LinhasCom(df[1], 1)) >= 2
   /\ \A i, j \in LinhasCom(df[1], 0) \cup LinhasCom(df[1], 1) :
        df[1].linhas[i].taxa = df[1].linhas[j].taxa)
  => /\ resultado[1].t = [sinal |-> 0, quad |-> <<0, 1>>]
     /\ resultado[1].p = <<1, 1>>

EhSelecao(serie, d, v) ==
  /\ {serie[k].rotulo : k \in DOMAIN serie} = LinhasCom(d, v)
  /\ \A k \in DOMAIN serie : serie[k].taxa = d.linhas[serie[k].rotulo].taxa
  /\ \A k \in DOMAIN serie : k > 1 => serie[k - 1].rotulo < serie[k].rotulo

Rotulos(serie) == {serie[k].rotulo : k \in DOMAIN serie}

EhParticao(pt, d) ==
  /\ EhSelecao(pt.sem_tec, d, 0)
  /\ EhSelecao(pt.com_tec, d, 1)
  /\ Rotulos(pt.sem_tec) \cap Rotulos(pt.com_tec) = {}
  /\ \A i \in DOMAIN d.linhas :
       d.linhas[i].ind \notin {0, 1} =>
         i \notin Rotulos(pt.sem_tec) \cup Rotulos(pt.com_tec)

\* C6: the partition drawn by graficos_base_escolas and the one tested by
\* teste_de_hipotese are the same: "sem" is the indicator-0 rows, "com" the
\* indicator-1 rows, disjoint, and rows with another indicator are in neither.
C6_ParticoesIguais ==
  /\ figura /= Nenhum => EhParticao(figura[1], df[1])
  /\ particao /= Nenhum =>
       /\ EhParticao(particao[1], df[1])
       /\ particao[1].sem_tec = figura[1].sem_tec
       /\ particao[1].com_tec = figura[1].com_tec

C6_Witness ==
  /\ particao /= Nenhum
  /\ figura /= Nenhum
  /\ Len(particao[1].sem_tec) >= 1
  /\ Len(particao[1].com_tec) >= 2
  /\ \E i \in DOMAIN df[1].linhas : df[1].linhas[i].ind = 2

\* C7: a missing (or unparsable) CSV fails main() at the load, a missing
\* column fails it at the descriptive statistics; nothing later runs: no
\* image is written by the run, nothing is printed, no test result exists.
\* main() ends normally only with all steps completed.
C7_FalhaSemResultadoParcial ==
  /\ (pc \notin {"parado", "carregar"} /\ arquivo.estado /= "ok") =>
       /\ pc = "falha"
       /\ passos = <<>>
       /\ df = Nenhum
  /\ (/\ pc \notin {"parado", "carregar", "descritivas"}
      /\ arquivo.estado = "ok"
      /\ arquivo.colunas /= Colunas) =>
       /\ pc = "falha"
       /\ passos = <<"carregar">>
  /\ (pc /= "parado" /\ (arquivo.estado /= "ok" \/ arquivo.colunas /= Colunas)) =>
       /\ pc /= "fim"
       /\ EscritasDaExecucao = {}
       /\ escritas = <<>>
       /\ saida = <<>>
       /\ stats_desc = Nenhum
       /\ resultado = Nenhum
  /\ pc = "fim" => passos = Ordem

C7_Witness ==
  /\ pc = "falha"
  /\ arquivo.estado = "ok"
  /\ arquivo.colunas = {COL_IND}
  /\ passos = <<"carregar">>
  /\ execucao = 2
  /\ Cardinality(fs) = 3

\* what holds of the images in every state
ImagensEmOrdem ==
  /\ \A a, b \in fs : a.caminho = b.caminho => a = b
  /\ \A a \in fs : a.caminho \in Imagens /\ a.execucao \in 1..execucao
  /\ \A i, j \in DOMAIN escritas :
       escritas[i].caminho = escritas[j].caminho => i = j
  /\ \A i \in DOMAIN escritas :
       /\ escritas[i].autor = "discretas" <=> escritas[i].caminho = ARQ_DISCRETAS
       /\ escritas[i].autor = "continuas" <=> escritas[i].caminho = ARQ_CONTINUAS
       /\ escritas[i].autor = "escolas" <=> escritas[i].caminho = ARQ_ESCOLAS
       /\ [caminho |-> escritas[i].caminho, execucao |-> execucao] \in fs
  /\ pc = "fim" =>
       /\ Cardinality(fs) = 3
       /\ {a.caminho : a \in fs} = Imagens
       /\ \A a \in fs : a.execucao = execucao
       /\ Len(escritas) = 3

\* no step removes an image or adds a fourth one
ImagensPermanecem ==
  /\ {a.caminho : a \in fs} \subseteq {a.caminho : a \in fs'}
  /\ Cardinality(fs) = 3 => Cardinality(fs') = 3

\* C8: the working directory never holds two images at one path; each run
\* writes a path at most once and only from its own visualizer; at the end
\* of a successful run, first or later, exactly the three images exist, each
\* written once by this run, whatever samples were drawn; and once the three
\* exist they remain exactly three through every later step and run.
C8_TresImagens == []ImagensEmOrdem /\ [][ImagensPermanecem]_vars

C8_Witness ==
  /\ pc = "fim"
  /\ execucao = 2
  /\ Cardinality(fs) = 3
  /\ \A a \in fs : a.execucao = 2
  /\ escritas[1].amostra = 1
  /\ escritas[2].amostra = 0

\* C9: the statistic has the sign of mean(indicator 1) - mean(indicator 0)
\* whenever it is not NaN, and testing the two groups exchanged gives the
\* negated statistic at the same degrees of freedom, hence the same p-value.
C9_OrdemDosGrupos ==
  resultado /= Nenhum =>
    LET com == ValoresDe(particao[1].com_tec)
        sem == ValoresDe(particao[1].sem_tec)
        t == resultado[1].t
        troca == EstatisticaT(sem, com)
    IN /\ ~EhNaN(t.quad) =>
            t.sinal = Sinal(Soma(com) * Len(sem) - Soma(sem) * Len(com))
       /\ troca.sinal = -t.sinal
       /\ troca.quad = t.quad
       /\ GrausDoTeste(sem, com) = GrausDoTeste(com, sem)
       /\ resultado[1].p \in PValores(troca, GrausDoTeste(sem, com))

C9_Witness ==
  /\ resultado /= Nenhum
  /\ resultado[1].t.sinal = -1
  /\ EhFinito(resultado[1].t.quad)
  /\ Len(particao[1].com_tec) = 2
  /\ Len(particao[1].sem_tec) = 2
  /\ resultado[1].p = <<1, 40>>

RECURSIVE SomaContagens(_)
SomaContagens(tab) ==
  IF DOMAIN tab = {} THEN 0
  ELSE LET g == CHOOSE x \in DOMAIN tab : TRUE
       IN tab[g].count
          + SomaContagens([x \in DOMAIN tab \ {g} |-> tab[x]])

====
